---- MODULE Spec2Model ----
(***************************************************************************)
(* INDUSTRIA360 dual-node platform: the sensing node (slave sketch,        *)
(* src/unnamed/part_000) and the supervisory node (master sketch,          *)
(* src/serial_comm_master.ino) coordinating over an MQTT broker.           *)
(*                                                                         *)
(* Temperatures and humidities are floats in the source; they are kept     *)
(* here in tenths (401 is 40.1), so a threshold T of the source is 10 * T. *)
(* Not modelled: the node/timestamp/uptime members of the JSON documents   *)
(* (never read by the peer), the HTML text, and Serial output other than   *)
(* the master's report of a JSON parse error and the slave's report of a   *)
(* received message.                                                       *)
(***************************************************************************)
EXTENDS Integers, Sequences, FiniteSets, TLC

VARIABLES
  relayState,   \* slave: bool relayState
  relayPin,     \* slave: output level of RELAY_PIN (TRUE = HIGH)
  sConn,        \* slave: mqttClient.connected()
  sPc,          \* slave: "loop" or "connectToMQTT" (blocked in the retry loop)
  sSubs,        \* slave: topics subscribed in the current session
  lastLevel,    \* history: branch taken by the last checkThresholds call
  lastReading,  \* history: the raw reading of the last publishSensorData call
  everCritical, \* history: some checkThresholds call took the CRITICAL branch
  repeated,     \* history: the last sensing cycle took the CRITICAL branch
                \* and the step right before it was a sensing cycle that did
  slaveData,    \* master: struct SensorData slaveData
  mConn,        \* master: mqttClient.connected()
  mPc,          \* master: "loop" or "connectToMQTT"
  mSubs,        \* master: topics subscribed in the current session
  net,          \* broker: messages in flight to each node, retained status
  now,          \* master: the value millis() returns, in ticks
  fx            \* outputs of the handler that made the last step, in order

vars == <<relayState, relayPin, sConn, sPc, sSubs, lastLevel, lastReading,
          everCritical, repeated, slaveData, mConn, mPc, mSubs, net, now,
          fx>>

histVars == <<lastLevel, lastReading, everCritical, repeated>>
slaveVars == <<relayState, relayPin, histVars>>
sConnVars == <<sConn, sPc, sSubs>>
mConnVars == <<mConn, mPc, mSubs>>
\* Every variable a callback of the master can write (lastTelegramCheck is
\* written by loop() alone).
masterVars == <<slaveData, mConnVars>>

(***************************************************************************)
(* Program constants                                                       *)
(***************************************************************************)
TEMP_HIGH == 40
HUMID_HIGH == 80
GAS_WARNING == 300
GAS_CRITICAL == 500

TOPIC_DATA == "industrial/slave/data"
TOPIC_ALERT == "industrial/slave/alert"
TOPIC_STATUS == "industrial/slave/status"
TOPIC_CONTROL == "industrial/slave/control"

(***************************************************************************)
(* Bounds of the model                                                     *)
(***************************************************************************)
MaxQueue == 1
MaxTime == 1

(***************************************************************************)
(* Wire payloads.  A payload is what the receiver's parser sees: json says *)
(* whether deserializeJson accepts it; a member the document lacks reads   *)
(* as "null" (String) or 0 (number), as ArduinoJson returns it; text is    *)
(* the raw string of a non-JSON payload.                                   *)
(***************************************************************************)
Doc(type, level, relay, t, h, g) ==
  [json |-> TRUE, type |-> type, level |-> level, relay |-> relay,
   temperature |-> t, humidity |-> h, gas |-> g, text |-> ""]

Raw(text) ==
  [json |-> FALSE, type |-> "null", level |-> "null", relay |-> "null",
   temperature |-> 0, humidity |-> 0, gas |-> 0, text |-> text]

DataDoc(t, h, g) == Doc("data", "null", "null", t, h, g)
AlertDoc(level) == Doc("alert", level, "null", 0, 0, 0)
StatusDoc(relay) == Doc("status", "null", relay, 0, 0, 0)

\* One output of a handler: a publish call (sent says whether the client was
\* connected, so that the call put a message on the wire) or an observer call.
Pub(connected, topic, payload, retain) ==
  [kind |-> "publish", topic |-> topic, payload |-> payload, retain |-> retain,
   sent |-> connected]
Out(kind, what, payload) ==
  [kind |-> kind, topic |-> what, payload |-> payload, retain |-> FALSE,
   sent |-> TRUE]
Num(n) == Doc("null", "null", "null", n, 0, 0)

(***************************************************************************)
(* Broker.  QoS 0: a message is queued to a node only if that node holds a *)
(* subscription to its topic.  A node's queue takes what a handler         *)
(* publishes when fewer than MaxQueue messages wait in it as the handler   *)
(* starts (net is the broker state at that moment); otherwise the messages *)
(* are lost.  A retained publish replaces the retained message; only the   *)
(* status topic is ever published retained.  PubSubClient::publish sends   *)
(* nothing when the client is not connected.                               *)
(***************************************************************************)
Enqueue(q, room, topic, payload) ==
  IF room THEN Append(q, [topic |-> topic, payload |-> payload]) ELSE q

Route(n, topic, payload, retain) ==
  [toMaster |-> IF topic \in mSubs
                THEN Enqueue(n.toMaster, Len(net.toMaster) < MaxQueue,
                             topic, payload)
                ELSE n.toMaster,
   toSlave |-> IF topic \in sSubs
               THEN Enqueue(n.toSlave, Len(net.toSlave) < MaxQueue,
                            topic, payload)
               ELSE n.toSlave,
   retained |-> IF retain THEN <<payload>> ELSE n.retained]

publish(n, connected, topic, payload, retain) ==
  IF connected THEN Route(n, topic, payload, retain) ELSE n

\* The subscribe calls of a connectToMQTT, in the order of the source.
subscribeFx(topics) ==
  LET order == <<TOPIC_DATA, TOPIC_ALERT, TOPIC_STATUS, TOPIC_CONTROL>>
      F[i \in 0..Len(order)] ==
        IF i = 0 THEN <<>>
        ELSE IF order[i] \in topics
             THEN Append(F[i - 1], Out("subscribe", order[i], Raw("")))
             ELSE F[i - 1]
  IN F[Len(order)]

(***************************************************************************)
(* Sensing node (slave)                                                    *)
(***************************************************************************)
\* A raw reading: dht.readTemperature(), dht.readHumidity() (NaN on a failed
\* read) and analogRead(MQ2_PIN).
Reading(tNan, t, hNan, h, g) ==
  [tNan |-> tNan, t |-> t, hNan |-> hNan, h |-> h, gas |-> g]

\* Fault: a failed read is replaced by a sentinel above every threshold.
validateHigh(nan, v) == IF nan THEN 10 * 999 ELSE v

\* if (isnan(x)) x = -1;
validate(nan, v) == IF nan THEN 10 * (-1) ELSE v

\* Fault: the CRITICAL condition tests the gas level against GAS_WARNING.
checkThresholdsLevelGasWarning(temp, hum, gas) ==
  IF gas > GAS_WARNING \/ temp > 10 * TEMP_HIGH \/ hum > 10 * HUMID_HIGH
  THEN "CRITICAL"
  ELSE "NORMAL"

\* Fault: the comparisons with the thresholds are not strict.
checkThresholdsLevelInclusive(temp, hum, gas) ==
  IF gas >= GAS_CRITICAL \/ temp >= 10 * TEMP_HIGH \/ hum >= 10 * HUMID_HIGH
  THEN "CRITICAL"
  ELSE IF gas >= GAS_WARNING THEN "WARNING" ELSE "NORMAL"

\* The branch checkThresholds takes; "NORMAL" names the case where neither
\* branch runs.
checkThresholdsLevel(temp, hum, gas) ==
  IF gas > GAS_CRITICAL \/ temp > 10 * TEMP_HIGH \/ hum > 10 * HUMID_HIGH
  THEN "CRITICAL"
  ELSE IF gas > GAS_WARNING THEN "WARNING" ELSE "NORMAL"

Bit(b) == IF b THEN 1 ELSE 0
OnOff(b) == IF b THEN "ON" ELSE "OFF"

\* updateBlynk: the isnan tests see validated values and always pass.
updateBlynk(temp, hum, gas, rs) ==
  <<Out("blynk", "V0", Num(temp)), Out("blynk", "V1", Num(hum)),
    Out("blynk", "V2", Num(gas)), Out("blynk", "V3", Num(Bit(rs)))>>

\* Fault: the alert is logged as a Blynk event but not published.
publishAlertFxEventOnly(level) ==
  <<Out("blynk_event", "system_alert", AlertDoc(level))>>

\* publishAlert: the alert document, then Blynk.logEvent("system_alert").
publishAlertFx(level) ==
  <<Pub(sConn, TOPIC_ALERT, AlertDoc(level), FALSE),
    Out("blynk_event", "system_alert", AlertDoc(level))>>

\* Fault: the status is published without the retained flag.
publishStatusNotRetained == FALSE

\* publishStatus: relay is digitalRead(RELAY_PIN); published retained.
publishStatusDoc(pin) == StatusDoc(OnOff(pin))
publishStatusRetain == TRUE

\* Fault: the CRITICAL branch leaves the pin as it is.
emergencyPinKept(pin) == pin

\* digitalWrite(RELAY_PIN, LOW); relayState = false;  -- the emergency OFF
emergencyPin(pin) == FALSE
emergencyState(rs) == FALSE

\* The outputs f are those of a sensing cycle: it alone publishes data first.
IsCycle(f) ==
  f # <<>> /\ f[1].kind = "publish" /\ f[1].topic = TOPIC_DATA

\* checkThresholds(temp, hum, gas), called with the broker state n left by
\* the data publish and the outputs f made so far.
checkThresholds(temp, hum, gas, n, f) ==
  LET level == checkThresholdsLevel(temp, hum, gas) IN
  /\ lastLevel' = level
  /\ everCritical' = (everCritical \/ level = "CRITICAL")
  /\ repeated' = (level = "CRITICAL" /\ IsCycle(fx) /\ lastLevel = "CRITICAL")
  /\ IF level = "CRITICAL"
     THEN /\ net' = publish(n, sConn, TOPIC_ALERT, AlertDoc("CRITICAL"), FALSE)
          /\ relayPin' = emergencyPin(relayPin)
          /\ relayState' = emergencyState(relayState)
          /\ fx' = f \o publishAlertFx("CRITICAL")
                    \o <<Out("blynk", "V4", Num(0))>>
     ELSE IF level = "WARNING"
     THEN /\ net' = publish(n, sConn, TOPIC_ALERT, AlertDoc("WARNING"), FALSE)
          /\ fx' = f \o publishAlertFx("WARNING")
          /\ UNCHANGED <<relayPin, relayState>>
     ELSE /\ net' = n
          /\ fx' = f
          /\ UNCHANGED <<relayPin, relayState>>

\* publishSensorData, run by timer.run() every publishInterval.
publishSensorData(r) ==
  /\ sPc = "loop"
  /\ LET temp == validate(r.tNan, r.t)
         hum == validate(r.hNan, r.h)
         gas == r.gas
         doc == DataDoc(temp, hum, gas)
     IN checkThresholds(temp, hum, gas,
                        publish(net, sConn, TOPIC_DATA, doc, FALSE),
                        <<Pub(sConn, TOPIC_DATA, doc, FALSE)>>
                          \o updateBlynk(temp, hum, gas, relayState))
  /\ lastReading' = r
  /\ UNCHANGED <<now, sConnVars, slaveData, mConnVars>>

\* The String the slave's callback builds from a payload.
MessageText(p) == IF p.json THEN "{json}" ELSE p.text

\* Fault: every message other than RELAY_ON switches the relay OFF.
controlRelayElseOff(message, rs) == message = "RELAY_ON"

\* Fault: the callback knows RELAY_OFF only.
controlRelayNoOn(message, rs) == IF message = "RELAY_OFF" THEN FALSE ELSE rs

\* New relay level after a control message.
controlRelay(message, rs) ==
  IF message = "RELAY_ON" THEN TRUE
  ELSE IF message = "RELAY_OFF" THEN FALSE ELSE rs

\* mqttCallback (slave), called by mqttClient.loop() with a message; n is
\* the broker state once the message is taken.
sMqttCallback(topic, payload, n) ==
  /\ sPc = "loop" /\ sConn
  /\ LET message == MessageText(payload)
     IN IF topic = TOPIC_CONTROL
        THEN LET rs == controlRelay(message, relayState)
                 pin == controlRelay(message, relayPin)
             IN /\ relayState' = rs
                /\ relayPin' = pin
                /\ net' = publish(n, sConn, TOPIC_STATUS,
                                  publishStatusDoc(pin), publishStatusRetain)
                /\ fx' = <<Out("serial", topic, payload),
                           Out("blynk", "V4", Num(Bit(rs))),
                           Pub(sConn, TOPIC_STATUS, publishStatusDoc(pin),
                               publishStatusRetain)>>
        ELSE /\ net' = n
             /\ fx' = <<Out("serial", topic, payload)>>
             /\ UNCHANGED <<relayState, relayPin>>
  /\ UNCHANGED <<now, histVars, sConnVars, slaveData,
                 mConnVars>>

\* BLYNK_WRITE(VPIN_CONTROL): a write of the app's control widget.
sBlynkWriteControl(param) ==
  /\ sPc = "loop"
  /\ relayState' = (param # 0)
  /\ relayPin' = (param # 0)
  /\ net' = publish(net, sConn, TOPIC_STATUS, publishStatusDoc(param # 0),
                    publishStatusRetain)
  /\ fx' = <<Pub(sConn, TOPIC_STATUS, publishStatusDoc(param # 0),
                 publishStatusRetain)>>
  /\ UNCHANGED <<now, histVars, sConnVars, slaveData,
                 mConnVars>>

\* connectToMQTT (slave): the topics subscribed after a successful connect.
sSubscriptions == {TOPIC_CONTROL}

\* Fault: connectToMQTT returns after one failed attempt and is not called
\* again.
sConnectOkNoRetry ==
  /\ ~sConn /\ sPc = "loop"
  /\ sConn' = TRUE
  /\ sSubs' = sSubscriptions
  /\ sPc' = "loop"
  /\ fx' = subscribeFx(sSubscriptions)
  /\ UNCHANGED <<now, slaveVars, slaveData, mConnVars, net>>

\* loop() finds the client disconnected and connectToMQTT's connect succeeds.
sConnectOk ==
  /\ ~sConn
  /\ sConn' = TRUE
  /\ sSubs' = sSubscriptions
  /\ sPc' = "loop"
  /\ fx' = subscribeFx(sSubscriptions)
  /\ UNCHANGED <<now, slaveVars, slaveData, mConnVars, net>>

\* connect fails: delay(200) and retry; the node stays inside connectToMQTT.
sConnectFail ==
  /\ ~sConn
  /\ sPc' = "connectToMQTT"
  /\ fx' = <<>>
  /\ UNCHANGED <<now, sConn, sSubs, slaveVars, slaveData, mConnVars,
                 net>>

\* The transport drops the slave's session: messages in flight to it are
\* lost and the broker forgets its (clean-session) subscriptions.
sTransportError ==
  /\ sConn
  /\ sConn' = FALSE
  /\ sSubs' = {}
  /\ net' = [net EXCEPT !.toSlave = <<>>]
  /\ fx' = <<>>
  /\ UNCHANGED <<now, sPc, slaveVars, slaveData, mConnVars>>

(***************************************************************************)
(* Supervisory node (master)                                               *)
(***************************************************************************)
\* sendControlCommand: mqttClient.publish(TOPIC_CONTROL, command).
sendControlCommand(n, command) ==
  publish(n, mConn, TOPIC_CONTROL, Raw(command), FALSE)
sendControlCommandFx(command) ==
  <<Pub(mConn, TOPIC_CONTROL, Raw(command), FALSE)>>

\* sendTelegramAlert: bot.sendMessage(CHAT_ID, ...).
sendTelegramAlert(tag) == <<Out("telegram", tag, Raw(tag))>>

\* handleSensorData
handleSensorData(n, doc) ==
  /\ slaveData' = [slaveData EXCEPT !.temperature = doc.temperature,
                                     !.humidity = doc.humidity,
                                     !.gas = doc.gas,
                                     !.lastUpdate = now]
  /\ net' = n
  /\ fx' = <<>>

\* Fault: a WARNING alert is answered with RELAY_OFF as well.
alertCommandsAlsoWarning(level) ==
  IF level \in {"CRITICAL", "WARNING"} THEN <<"RELAY_OFF">> ELSE <<>>

\* The control commands handleAlert sends for a level, in order.
alertCommands(level) == IF level = "CRITICAL" THEN <<"RELAY_OFF">> ELSE <<>>

\* Fault: a CRITICAL alert is not logged as a Blynk event.
alertObserversTelegramOnly(level) ==
  IF level \in {"CRITICAL", "WARNING"} THEN <<Out("telegram", level, Raw(level))>>
  ELSE <<>>

\* The observer calls handleAlert makes for a level, in order.
alertObservers(level) ==
  IF level = "CRITICAL"
  THEN sendTelegramAlert("CRITICAL")
         \o <<Out("blynk_event", "critical_alert", Raw("CRITICAL"))>>
  ELSE IF level = "WARNING" THEN sendTelegramAlert("WARNING")
  ELSE <<>>

\* handleAlert
handleAlert(n, doc) ==
  LET level == doc.level
      commands == alertCommands(level)
  IN /\ slaveData' = [slaveData EXCEPT !.lastAlert = level]
     /\ net' = IF commands # <<>> THEN sendControlCommand(n, commands[1])
               ELSE n
     /\ fx' = (IF commands # <<>> THEN sendControlCommandFx(commands[1])
               ELSE <<>>) \o alertObservers(level)

\* Fault: a status refreshes the staleness clock as well.
handleStatusStamped(n, doc) ==
  /\ slaveData' = [slaveData EXCEPT !.relayState = doc.relay,
                                     !.lastUpdate = now]
  /\ net' = n
  /\ fx' = <<Out("blynk", "V3", Num(Bit(doc.relay = "ON")))>>

\* handleStatus
handleStatus(n, doc) ==
  /\ slaveData' = [slaveData EXCEPT !.relayState = doc.relay]
  /\ net' = n
  /\ fx' = <<Out("blynk", "V3", Num(Bit(doc.relay = "ON")))>>

\* Fault: the handler is selected by the declared type alone.
mDispatchByType(topic, payload) ==
  IF ~payload.json THEN "none"
  ELSE IF payload.type = "data" THEN "handleSensorData"
  ELSE IF payload.type = "alert" THEN "handleAlert"
  ELSE IF payload.type = "status" THEN "handleStatus"
  ELSE "none"

\* The handler mqttCallback (master) selects for a message, "none" when it
\* returns without calling one.
mDispatch(topic, payload) ==
  IF ~payload.json THEN "none"
  ELSE IF topic = TOPIC_DATA /\ payload.type = "data" THEN "handleSensorData"
  ELSE IF topic = TOPIC_ALERT /\ payload.type = "alert" THEN "handleAlert"
  ELSE IF topic = TOPIC_STATUS /\ payload.type = "status" THEN "handleStatus"
  ELSE "none"

\* mqttCallback (master), called by mqttClient.loop() with a message; n is
\* the broker state once the message is taken.
mMqttCallback(topic, payload, n) ==
  /\ mPc = "loop" /\ mConn
  /\ LET h == mDispatch(topic, payload)
     IN IF h = "handleSensorData" THEN handleSensorData(n, payload)
        ELSE IF h = "handleAlert" THEN handleAlert(n, payload)
        ELSE IF h = "handleStatus" THEN handleStatus(n, payload)
        ELSE /\ net' = n
             /\ fx' = IF payload.json THEN <<>>
                      ELSE <<Out("serial", "JSON parse error", payload)>>
             /\ UNCHANGED slaveData
  /\ UNCHANGED <<now, slaveVars, sConnVars, mConnVars>>

\* BLYNK_WRITE(VPIN_RELAY): a write of the app's relay widget.
mBlynkWriteRelay(state) ==
  /\ mPc = "loop"
  /\ LET command == IF state # 0 THEN "RELAY_ON" ELSE "RELAY_OFF" IN
     /\ net' = sendControlCommand(net, command)
     /\ fx' = sendControlCommandFx(command)
  /\ UNCHANGED <<now, slaveVars, sConnVars, slaveData, mConnVars>>

\* Fault: the toggle always asks for ON.
toggleCommandAlwaysOn(mirror) == "RELAY_ON"

\* The command handleToggle sends for a mirrored relay state.
toggleCommand(mirror) == IF mirror = "ON" THEN "RELAY_OFF" ELSE "RELAY_ON"

\* handleToggle: POST /toggle, answered with a 303 to "/".
handleToggle ==
  /\ mPc = "loop"
  /\ net' = sendControlCommand(net, toggleCommand(slaveData.relayState))
  /\ fx' = sendControlCommandFx(toggleCommand(slaveData.relayState))
             \o <<Out("http", "303", Raw("/"))>>
  /\ UNCHANGED <<now, slaveVars, sConnVars, slaveData, mConnVars>>

\* updateDashboard, run by timer.run() every 15 s.
updateDashboard ==
  /\ mPc = "loop"
  /\ fx' = <<Out("blynk", "V0", Num(slaveData.temperature)),
             Out("blynk", "V1", Num(slaveData.humidity)),
             Out("blynk", "V2", Num(slaveData.gas)),
             Out("blynk", "V3", Num(Bit(slaveData.relayState = "ON")))>>
           \o (IF slaveData.lastAlert # "NORMAL"
               THEN <<Out("blynk", "V4", Raw(slaveData.lastAlert))>>
               ELSE <<>>)
  /\ UNCHANGED <<now, slaveVars, sConnVars, slaveData, mConnVars,
                 net>>

\* Fault: the status topic is not subscribed.
mSubscriptionsNoStatus == {TOPIC_DATA, TOPIC_ALERT}

\* connectToMQTT (master): the topics subscribed after a successful connect.
mSubscriptions == {TOPIC_DATA, TOPIC_ALERT, TOPIC_STATUS}

\* loop() finds the client disconnected and connectToMQTT's connect succeeds;
\* on the subscription to the status topic the broker sends its retained
\* message.
mConnectOk ==
  /\ ~mConn
  /\ mConn' = TRUE
  /\ mSubs' = mSubscriptions
  /\ mPc' = "loop"
  /\ net' = IF TOPIC_STATUS \in mSubscriptions /\ net.retained # <<>>
            THEN [net EXCEPT !.toMaster =
                    Enqueue(@, Len(net.toMaster) < MaxQueue, TOPIC_STATUS,
                            Head(net.retained))]
            ELSE net
  /\ fx' = subscribeFx(mSubscriptions)
  /\ UNCHANGED <<now, slaveVars, sConnVars, slaveData>>

\* connect fails: delay(3000) and retry; the node stays inside connectToMQTT.
mConnectFail ==
  /\ ~mConn
  /\ mPc' = "connectToMQTT"
  /\ fx' = <<>>
  /\ UNCHANGED <<now, mConn, mSubs, slaveVars, sConnVars, slaveData, net>>

\* The transport drops the master's session.
mTransportError ==
  /\ mConn
  /\ mConn' = FALSE
  /\ mSubs' = {}
  /\ net' = [net EXCEPT !.toMaster = <<>>]
  /\ fx' = <<>>
  /\ UNCHANGED <<now, mPc, slaveVars, sConnVars, slaveData>>

\* millis() advances.
Tick ==
  /\ now < MaxTime
  /\ now' = now + 1
  /\ fx' = <<>>
  /\ UNCHANGED <<slaveVars, sConnVars, slaveData, mConnVars, net>>

(***************************************************************************)
(* Environment                                                             *)
(***************************************************************************)
\* Readings the sensors deliver in the protocol model: within limits, gas
\* above GAS_WARNING with both DHT reads failed, temperature above
\* TEMP_HIGH.
Readings ==
  {Reading(FALSE, 300, FALSE, 300, 100), Reading(TRUE, 0, TRUE, 0, 350),
   Reading(FALSE, 410, FALSE, 300, 100)}

\* Readings around every threshold, for the classification alone.
TempValues == {0, 300, 399, 400, 401, 410, 500}
HumValues == {200, 300, 799, 800, 801, 900}
GasValues == {0, 100, 299, 300, 301, 350, 499, 500, 501, 600, 4095}
AllReadings ==
  {Reading(FALSE, t, FALSE, h, g) :
     t \in TempValues, h \in HumValues, g \in GasValues}
  \cup {Reading(TRUE, 0, FALSE, h, g) : h \in HumValues, g \in GasValues}
  \cup {Reading(FALSE, t, TRUE, 0, g) : t \in TempValues, g \in GasValues}
  \cup {Reading(TRUE, 0, TRUE, 0, g) : g \in GasValues}

\* What any other client of the public broker may publish to the master:
\* text that is no JSON on every topic, a document whose declared type does
\* not match its topic (with every member set) on every topic, a document
\* with no type, and an alert of level NORMAL; and to the slave a control
\* string it does not know.  A foreign message is handed to the subscriber's
\* callback as it arrives (it may be published at any moment, so it need
\* not wait in the queue).
Full(type) == Doc(type, "CRITICAL", "ON", 410, 300, 100)
ForeignToMaster ==
  {<<t, Raw("garbage")>> : t \in {TOPIC_DATA, TOPIC_ALERT, TOPIC_STATUS}}
  \cup {<<TOPIC_ALERT, Full("data")>>, <<TOPIC_STATUS, Full("alert")>>,
         <<TOPIC_DATA, Full("status")>>, <<TOPIC_DATA, Full("null")>>,
         <<TOPIC_ALERT, AlertDoc("NORMAL")>>}
ForeignToSlave == {<<TOPIC_CONTROL, Raw("REBOOT")>>}

\* mqttClient.loop() (slave) delivers the oldest message in flight.
sDeliver ==
  /\ net.toSlave # <<>>
  /\ sMqttCallback(Head(net.toSlave).topic, Head(net.toSlave).payload,
                   [net EXCEPT !.toSlave = Tail(@)])

sForeign(topic, payload) ==
  /\ topic \in sSubs
  /\ sMqttCallback(topic, payload, net)

\* mqttClient.loop() (master) delivers the oldest message in flight.
mDeliver ==
  /\ net.toMaster # <<>>
  /\ mMqttCallback(Head(net.toMaster).topic, Head(net.toMaster).payload,
                   [net EXCEPT !.toMaster = Tail(@)])

mForeign(topic, payload) ==
  /\ topic \in mSubs
  /\ mMqttCallback(topic, payload, net)

Remove(q, i) == SubSeq(q, 1, i - 1) \o SubSeq(q, i + 1, Len(q))

\* The channel loses a message in flight.
dropToMaster(i) ==
  /\ net' = [net EXCEPT !.toMaster = Remove(@, i)]
  /\ fx' = <<>>
  /\ UNCHANGED <<now, slaveVars, sConnVars, slaveData, mConnVars>>

dropToSlave(i) ==
  /\ net' = [net EXCEPT !.toSlave = Remove(@, i)]
  /\ fx' = <<>>
  /\ UNCHANGED <<now, slaveVars, sConnVars, slaveData, mConnVars>>

(***************************************************************************)
(* Specifications                                                          *)
(***************************************************************************)
\* The state after both setup() calls: the slave's relay pin is written HIGH
\* while relayState keeps its initialiser false.
Init ==
  /\ relayState = FALSE
  /\ relayPin = TRUE
  /\ sConn = FALSE
  /\ sPc = "loop"
  /\ sSubs = {}
  /\ lastLevel = "NONE"
  /\ lastReading = Reading(FALSE, 0, FALSE, 0, 0)
  /\ everCritical = FALSE
  /\ repeated = FALSE
  /\ slaveData = [temperature |-> 0, humidity |-> 0, gas |-> 0,
                  relayState |-> "OFF", lastAlert |-> "NORMAL",
                  lastUpdate |-> 0]
  /\ mConn = FALSE
  /\ mPc = "loop"
  /\ mSubs = {}
  /\ net = [toMaster |-> <<>>, toSlave |-> <<>>, retained |-> <<>>]
  /\ now = 0
  /\ fx = <<>>

\* Every handler of both nodes and the channel, at one reading of millis().
Next ==
  \/ \E r \in Readings : publishSensorData(r)
  \/ sDeliver
  \/ \E m \in ForeignToSlave : sForeign(m[1], m[2])
  \/ \E param \in {0, 1} : sBlynkWriteControl(param)
  \/ sConnectOk
  \/ sConnectFail
  \/ sTransportError
  \/ mDeliver
  \/ \E m \in ForeignToMaster : mForeign(m[1], m[2])
  \/ \E state \in {0, 1} : mBlynkWriteRelay(state)
  \/ handleToggle
  \/ updateDashboard
  \/ mConnectOk
  \/ mConnectFail
  \/ mTransportError
  \/ \E i \in 1..Len(net.toMaster) : dropToMaster(i)
  \/ \E i \in 1..Len(net.toSlave) : dropToSlave(i)

Spec == Init /\ [][Next]_vars

\* The same with millis() advancing.
NextClock == Next \/ Tick

SpecClock == Init /\ [][NextClock]_vars

\* The same as Spec with a broker that does not refuse a node for ever: a
\* connect attempt, which loop() and the while loop of connectToMQTT repeat
\* without limit, eventually succeeds.
SpecLive == Spec /\ WF_vars(sConnectOk) /\ WF_vars(mConnectOk)

\* The same with both loop() functions running without end: the slave's timer
\* keeps firing publishSensorData, each mqttClient.loop() keeps delivering
\* what is in flight, and the master's timer keeps firing updateDashboard.
SpecFollow ==
  /\ SpecLive
  /\ WF_vars(\E r \in Readings : publishSensorData(r))
  /\ WF_vars(sDeliver)
  /\ WF_vars(mDeliver)
  /\ WF_vars(updateDashboard)

\* The master's mirror under a running clock: the handlers that publish to
\* the master or write its mirror, on a channel that loses nothing.
NextMirror ==
  \/ \E r \in Readings : publishSensorData(r)
  \/ sDeliver
  \/ \E param \in {0, 1} : sBlynkWriteControl(param)
  \/ sConnectOk
  \/ mDeliver
  \/ \E m \in ForeignToMaster : mForeign(m[1], m[2])
  \/ \E state \in {0, 1} : mBlynkWriteRelay(state)
  \/ handleToggle
  \/ updateDashboard
  \/ mConnectOk
  \/ mTransportError
  \/ Tick

SpecMirror == Init /\ [][NextMirror]_vars

(***************************************************************************)
(* The two loop() functions statement by statement.  sPc and mPc hold the  *)
(* statement each node executes next: a call of loop() ("Blynk.run",       *)
(* "timer.run", "handleClient", "connected", "mqttClient.loop") or a       *)
(* statement inside the handler that call dispatched.  The steps of the    *)
(* two nodes interleave freely; a message being handled by the slave stays *)
(* at the head of its queue until its callback returns.                    *)
(***************************************************************************)
\* Fault: the publish inside publishAlert dispatches a waiting message too.
sCallbackPositionsInPublish == {"mqttClient.loop", "critical:digitalWrite"}

\* The calls of loop() from which a library dispatches the MQTT callback.
sCallbackPositions == {"mqttClient.loop"}

\* Blynk.run() (slave): nothing to dispatch, or BLYNK_WRITE(VPIN_CONTROL)
\* starts with relayState = param.asInt().
sBlynkRun ==
  /\ sPc = "Blynk.run"
  /\ \/ /\ sPc' = "timer.run"
        /\ UNCHANGED relayState
     \/ \E param \in {0, 1} :
          /\ relayState' = (param # 0)
          /\ sPc' = "write:digitalWrite"
  /\ fx' = <<>>
  /\ UNCHANGED <<now, relayPin, histVars, sConn, sSubs, slaveData, mConnVars,
                 net>>

\* BLYNK_WRITE(VPIN_CONTROL): digitalWrite(RELAY_PIN, relayState).
sWriteDigitalWrite ==
  /\ sPc = "write:digitalWrite"
  /\ relayPin' = relayState
  /\ sPc' = "write:publishStatus"
  /\ fx' = <<>>
  /\ UNCHANGED <<now, relayState, histVars, sConn, sSubs, slaveData,
                 mConnVars, net>>

\* BLYNK_WRITE(VPIN_CONTROL): publishStatus().
sWritePublishStatus ==
  /\ sPc = "write:publishStatus"
  /\ net' = publish(net, sConn, TOPIC_STATUS, publishStatusDoc(relayPin),
                    publishStatusRetain)
  /\ fx' = <<Pub(sConn, TOPIC_STATUS, publishStatusDoc(relayPin),
                 publishStatusRetain)>>
  /\ sPc' = "timer.run"
  /\ UNCHANGED <<now, slaveVars, sConn, sSubs, slaveData, mConnVars>>

\* timer.run() (slave): not due, or publishSensorData runs up to its call of
\* checkThresholds, whose condition selects the branch.
sTimerRun ==
  /\ sPc = "timer.run"
  /\ \/ /\ sPc' = "connected"
        /\ fx' = <<>>
        /\ UNCHANGED <<histVars, net>>
     \/ \E r \in Readings :
          LET temp == validate(r.tNan, r.t)
              hum == validate(r.hNan, r.h)
              level == checkThresholdsLevel(temp, hum, r.gas)
              doc == DataDoc(temp, hum, r.gas)
          IN /\ lastReading' = r
             /\ lastLevel' = level
             /\ everCritical' = (everCritical \/ level = "CRITICAL")
             /\ repeated' = FALSE
             /\ net' = publish(net, sConn, TOPIC_DATA, doc, FALSE)
             /\ fx' = <<Pub(sConn, TOPIC_DATA, doc, FALSE)>>
                        \o updateBlynk(temp, hum, r.gas, relayState)
             /\ sPc' = IF level = "CRITICAL" THEN "critical:publishAlert"
                       ELSE IF level = "WARNING" THEN "warning:publishAlert"
                       ELSE "connected"
  /\ UNCHANGED <<now, relayState, relayPin, sConn, sSubs, slaveData,
                 mConnVars>>

\* checkThresholds: publishAlert(level).
sPublishAlert ==
  /\ sPc \in {"critical:publishAlert", "warning:publishAlert"}
  /\ net' = publish(net, sConn, TOPIC_ALERT, AlertDoc(lastLevel), FALSE)
  /\ fx' = publishAlertFx(lastLevel)
  /\ sPc' = IF sPc = "critical:publishAlert" THEN "critical:digitalWrite"
            ELSE "connected"
  /\ UNCHANGED <<now, slaveVars, sConn, sSubs, slaveData, mConnVars>>

\* checkThresholds, CRITICAL branch: digitalWrite(RELAY_PIN, LOW).
sCriticalDigitalWrite ==
  /\ sPc = "critical:digitalWrite"
  /\ relayPin' = emergencyPin(relayPin)
  /\ sPc' = "critical:relayState"
  /\ fx' = <<>>
  /\ UNCHANGED <<now, relayState, histVars, sConn, sSubs, slaveData,
                 mConnVars, net>>

\* checkThresholds, CRITICAL branch: relayState = false.
sCriticalRelayState ==
  /\ sPc = "critical:relayState"
  /\ relayState' = emergencyState(relayState)
  /\ sPc' = "critical:virtualWrite"
  /\ fx' = <<>>
  /\ UNCHANGED <<now, relayPin, histVars, sConn, sSubs, slaveData, mConnVars,
                 net>>

\* checkThresholds, CRITICAL branch: Blynk.virtualWrite(VPIN_CONTROL, 0).
sCriticalVirtualWrite ==
  /\ sPc = "critical:virtualWrite"
  /\ fx' = <<Out("blynk", "V4", Num(0))>>
  /\ sPc' = "connected"
  /\ UNCHANGED <<now, slaveVars, sConn, sSubs, slaveData, mConnVars, net>>

\* if (!mqttClient.connected()) connectToMQTT();  -- with a connect that
\* succeeds.
sConnected ==
  /\ sPc = "connected"
  /\ IF sConn
     THEN /\ fx' = <<>>
          /\ UNCHANGED <<sConn, sSubs>>
     ELSE /\ sConn' = TRUE
          /\ sSubs' = sSubscriptions
          /\ fx' = subscribeFx(sSubscriptions)
  /\ sPc' = "mqttClient.loop"
  /\ UNCHANGED <<now, slaveVars, slaveData, mConnVars, net>>

\* mqttClient.loop() (slave): no message, or mqttCallback starts on the
\* oldest one and, for a control message, writes the pin.
sMqttLoop ==
  /\ sPc \in sCallbackPositions
  /\ IF net.toSlave = <<>>
     THEN /\ sPc' = "Blynk.run"
          /\ fx' = <<>>
          /\ UNCHANGED relayPin
     ELSE /\ fx' = <<Out("serial", Head(net.toSlave).topic,
                         Head(net.toSlave).payload)>>
          /\ IF Head(net.toSlave).topic = TOPIC_CONTROL
             THEN /\ relayPin' = controlRelay(MessageText(Head(net.toSlave).payload),
                                              relayPin)
                  /\ sPc' = "callback:relayState"
             ELSE /\ sPc' = "callback:return"
                  /\ UNCHANGED relayPin
  /\ UNCHANGED <<now, relayState, histVars, sConn, sSubs, slaveData,
                 mConnVars, net>>

\* mqttCallback: relayState = true / false.
sCallbackRelayState ==
  /\ sPc = "callback:relayState"
  /\ relayState' = controlRelay(MessageText(Head(net.toSlave).payload),
                                relayState)
  /\ sPc' = "callback:publishStatus"
  /\ fx' = <<>>
  /\ UNCHANGED <<now, relayPin, histVars, sConn, sSubs, slaveData, mConnVars,
                 net>>

\* mqttCallback: Blynk.virtualWrite(VPIN_CONTROL, ...); publishStatus(); and
\* the return to loop().
sCallbackReturn ==
  /\ sPc \in {"callback:publishStatus", "callback:return"}
  /\ LET n == [net EXCEPT !.toSlave = Tail(@)] IN
     IF sPc = "callback:publishStatus"
     THEN /\ net' = publish(n, sConn, TOPIC_STATUS, publishStatusDoc(relayPin),
                            publishStatusRetain)
          /\ fx' = <<Out("blynk", "V4", Num(Bit(relayState))),
                     Pub(sConn, TOPIC_STATUS, publishStatusDoc(relayPin),
                         publishStatusRetain)>>
     ELSE /\ net' = n
          /\ fx' = <<>>
  /\ sPc' = "Blynk.run"
  /\ UNCHANGED <<now, slaveVars, sConn, sSubs, slaveData, mConnVars>>

\* Blynk.run() (master): nothing to dispatch, or BLYNK_WRITE(VPIN_RELAY).
mBlynkRun ==
  /\ mPc = "Blynk.run"
  /\ \/ /\ fx' = <<>>
        /\ UNCHANGED net
     \/ \E state \in {0, 1} :
          LET command == IF state # 0 THEN "RELAY_ON" ELSE "RELAY_OFF" IN
          /\ net' = sendControlCommand(net, command)
          /\ fx' = sendControlCommandFx(command)
  /\ mPc' = "timer.run"
  /\ UNCHANGED <<now, slaveVars, sConnVars, slaveData, mConn, mSubs>>

\* timer.run() and server.handleClient() (master): no request, or
\* handleToggle.  (updateDashboard and handleRoot write no variable.)
mHandleClient ==
  /\ mPc = "timer.run"
  /\ \/ /\ fx' = <<>>
        /\ UNCHANGED net
     \/ /\ net' = sendControlCommand(net, toggleCommand(slaveData.relayState))
        /\ fx' = sendControlCommandFx(toggleCommand(slaveData.relayState))
  /\ mPc' = "connected"
  /\ UNCHANGED <<now, slaveVars, sConnVars, slaveData, mConn, mSubs>>

\* if (!mqttClient.connected()) connectToMQTT();  -- with a connect that
\* succeeds.
mConnected ==
  /\ mPc = "connected"
  /\ IF mConn
     THEN /\ fx' = <<>>
          /\ UNCHANGED <<mConn, mSubs, net>>
     ELSE /\ mConn' = TRUE
          /\ mSubs' = mSubscriptions
          /\ net' = IF TOPIC_STATUS \in mSubscriptions /\ net.retained # <<>>
                    THEN [net EXCEPT !.toMaster =
                            Enqueue(@, Len(net.toMaster) < MaxQueue,
                                    TOPIC_STATUS, Head(net.retained))]
                    ELSE net
          /\ fx' = subscribeFx(mSubscriptions)
  /\ mPc' = "mqttClient.loop"
  /\ UNCHANGED <<now, slaveVars, sConnVars, slaveData>>

\* mqttClient.loop() (master): no message, or mqttCallback takes the oldest
\* one: handleSensorData and handleStatus run to their end; handleAlert runs
\* slaveData.lastAlert = level and goes on by the level.
mMqttLoop ==
  /\ mPc = "mqttClient.loop"
  /\ IF net.toMaster = <<>>
     THEN /\ mPc' = "Blynk.run"
          /\ fx' = <<>>
          /\ UNCHANGED <<slaveData, net>>
     ELSE LET topic == Head(net.toMaster).topic
              payload == Head(net.toMaster).payload
              n == [net EXCEPT !.toMaster = Tail(@)]
              h == mDispatch(topic, payload)
          IN IF h = "handleSensorData"
             THEN handleSensorData(n, payload) /\ mPc' = "Blynk.run"
             ELSE IF h = "handleStatus"
             THEN handleStatus(n, payload) /\ mPc' = "Blynk.run"
             ELSE IF h = "handleAlert"
             THEN /\ slaveData' = [slaveData EXCEPT !.lastAlert = payload.level]
                  /\ net' = n
                  /\ fx' = <<>>
                  /\ mPc' = IF payload.level = "CRITICAL"
                            THEN "alert:sendControlCommand"
                            ELSE IF payload.level = "WARNING"
                            THEN "alert:sendTelegramAlert"
                            ELSE "Blynk.run"
             ELSE /\ net' = n
                  /\ fx' = <<>>
                  /\ mPc' = "Blynk.run"
                  /\ UNCHANGED slaveData
  /\ UNCHANGED <<now, slaveVars, sConnVars, mConn, mSubs>>

\* handleAlert, CRITICAL branch: sendControlCommand("RELAY_OFF").
mAlertSendControlCommand ==
  /\ mPc = "alert:sendControlCommand"
  /\ net' = sendControlCommand(net, "RELAY_OFF")
  /\ fx' = sendControlCommandFx("RELAY_OFF")
  /\ mPc' = "alert:sendTelegramAlert"
  /\ UNCHANGED <<now, slaveVars, sConnVars, slaveData, mConn, mSubs>>

\* Fault: handleAlert returns when the notification fails.
afterTelegramAbort(level, ok) ==
  IF level = "CRITICAL" /\ ok THEN "alert:logEvent" ELSE "Blynk.run"

\* The statement that follows sendTelegramAlert in handleAlert, for a level
\* and an outcome of bot.sendMessage (whose result the code does not read).
afterTelegram(level, ok) ==
  IF level = "CRITICAL" THEN "alert:logEvent" ELSE "Blynk.run"

\* handleAlert: sendTelegramAlert(...), bot.sendMessage succeeding or not.
mAlertSendTelegram ==
  /\ mPc = "alert:sendTelegramAlert"
  /\ \E ok \in BOOLEAN :
       /\ fx' = <<Out("telegram", slaveData.lastAlert,
                      Raw(IF ok THEN "sent" ELSE "failed"))>>
       /\ mPc' = afterTelegram(slaveData.lastAlert, ok)
  /\ UNCHANGED <<now, slaveVars, sConnVars, slaveData, mConn, mSubs, net>>

\* handleAlert, CRITICAL branch: Blynk.logEvent("critical_alert", ...).
mAlertLogEvent ==
  /\ mPc = "alert:logEvent"
  /\ fx' = <<Out("blynk_event", "critical_alert", Raw("CRITICAL"))>>
  /\ mPc' = "Blynk.run"
  /\ UNCHANGED <<now, slaveVars, sConnVars, slaveData, mConn, mSubs, net>>

\* Both nodes at the top of loop() after setup().
InitSteps ==
  /\ relayState = FALSE
  /\ relayPin = TRUE
  /\ sConn = FALSE
  /\ sPc = "Blynk.run"
  /\ sSubs = {}
  /\ lastLevel = "NONE"
  /\ lastReading = Reading(FALSE, 0, FALSE, 0, 0)
  /\ everCritical = FALSE
  /\ repeated = FALSE
  /\ slaveData = [temperature |-> 0, humidity |-> 0, gas |-> 0,
                  relayState |-> "OFF", lastAlert |-> "NORMAL",
                  lastUpdate |-> 0]
  /\ mConn = FALSE
  /\ mPc = "Blynk.run"
  /\ mSubs = {}
  /\ net = [toMaster |-> <<>>, toSlave |-> <<>>, retained |-> <<>>]
  /\ now = 0
  /\ fx = <<>>

NextSteps ==
  \/ sBlynkRun
  \/ sWriteDigitalWrite
  \/ sWritePublishStatus
  \/ sTimerRun
  \/ sPublishAlert
  \/ sCriticalDigitalWrite
  \/ sCriticalRelayState
  \/ sCriticalVirtualWrite
  \/ sConnected
  \/ sMqttLoop
  \/ sCallbackRelayState
  \/ sCallbackReturn
  \/ mBlynkRun
  \/ mHandleClient
  \/ mConnected
  \/ mMqttLoop
  \/ mAlertSendControlCommand
  \/ mAlertSendTelegram
  \/ mAlertLogEvent

SpecSteps == InitSteps /\ [][NextSteps]_vars

\* The classification alone: one sensing cycle per reading.
NextClassify == \E r \in AllReadings : publishSensorData(r)

SpecClassify == Init /\ [][NextClassify]_vars

(***************************************************************************)
(* Claims                                                                  *)
(***************************************************************************)
\* The control message at the head of the slave's queue.
NextControl(text) ==
  /\ net.toSlave # <<>>
  /\ Head(net.toSlave) = [topic |-> TOPIC_CONTROL, payload |-> Raw(text)]

\* The outputs f are those of the slave's callback for the control message
\* text, leaving the relay at relay.
IsControlFx(f, text, relay) ==
  /\ Len(f) = 3
  /\ f[1] = Out("serial", TOPIC_CONTROL, Raw(text))
  /\ f[2] = Out("blynk", "V4", Num(Bit(relay)))
  /\ f[3].kind = "publish" /\ f[3].topic = TOPIC_STATUS
  /\ f[3].payload = StatusDoc(OnOff(relay))

\* C1 (as claimed): while the last classification cycle evaluated CRITICAL,
\* the relay is OFF: no remote ON command (control message RELAY_ON, Blynk
\* control write of 1) that arrives before a later cycle evaluates WARNING or
\* NORMAL changes the relay state.
C1_RemoteOnRejectedWhileLatched ==
  lastLevel = "CRITICAL" => (~relayPin /\ ~relayState)

\* C2: a sensing cycle that evaluates CRITICAL ends with the relay OFF
\* whatever the state before it, and when the step right before it was a
\* CRITICAL cycle too it changes no relay state.
C2_CriticalForcesOffIdempotent ==
  [][(IsCycle(fx') /\ lastLevel' = "CRITICAL")
       => /\ ~relayPin' /\ ~relayState'
          /\ (IsCycle(fx) /\ lastLevel = "CRITICAL")
               => UNCHANGED <<relayPin, relayState>>]_vars

\* C2 witness: a second CRITICAL cycle in a row has run and the relay is OFF.
C2_Witness ==
  IsCycle(fx) /\ lastLevel = "CRITICAL" /\ repeated /\ ~relayPin /\ ~relayState

\* C3: once a CRITICAL cycle has been followed by a cycle that evaluated
\* WARNING or NORMAL, the slave's callback applies a RELAY_ON control
\* message: the relay pin goes HIGH and relayState true.
C3_OnAcceptedAfterClear ==
  [][(/\ everCritical /\ lastLevel \in {"WARNING", "NORMAL"}
      /\ NextControl("RELAY_ON")
      /\ sDeliver)
       => (relayPin' /\ relayState')]_vars

\* C3 witness: after CRITICAL and then a clearing cycle, a RELAY_ON has been
\* handled and the relay is ON.
C3_Witness ==
  /\ everCritical /\ lastLevel \in {"WARNING", "NORMAL"}
  /\ IsControlFx(fx, "RELAY_ON", TRUE)
  /\ relayPin /\ relayState

\* The policy the specification states, on the raw reading, with the
\* thresholds written out (tenths for temperature and humidity).
ReferenceLevel(r) ==
  IF r.gas > 500 \/ (~r.tNan /\ r.t > 400) \/ (~r.hNan /\ r.h > 800)
  THEN "CRITICAL"
  ELSE IF r.gas > 300 THEN "WARNING" ELSE "NORMAL"

\* C4: the level a sensing cycle evaluates for a reading is that of the
\* reference policy: CRITICAL if gas > 500 or temperature > 40 or humidity
\* > 80, else WARNING if gas > 300, else NORMAL, with strict comparisons.
C4_ClassificationMatchesPolicy ==
  lastLevel # "NONE" => lastLevel = ReferenceLevel(lastReading)

\* C4 witness: a reading with every field exactly at its CRITICAL threshold
\* has been classified, and is WARNING.
C4_Witness ==
  /\ lastLevel = "WARNING"
  /\ lastReading = Reading(FALSE, 400, FALSE, 800, 500)

\* C5: a reading with an absent temperature or humidity, gas at most
\* GAS_CRITICAL and its present values within limits is not CRITICAL.
C5_AbsentNeverCritical ==
  (/\ lastLevel # "NONE"
   /\ lastReading.tNan \/ lastReading.hNan
   /\ lastReading.gas <= 500
   /\ ~lastReading.tNan => lastReading.t <= 400
   /\ ~lastReading.hNan => lastReading.h <= 800)
    => lastLevel # "CRITICAL"

\* C5 witness: both DHT reads failed with gas at GAS_CRITICAL, and the cycle
\* evaluated WARNING.
C5_Witness ==
  /\ lastReading.tNan /\ lastReading.hNan /\ lastReading.gas = 500
  /\ lastLevel = "WARNING"

\* C6 (as claimed): whatever messages the channel loses, a relay forced OFF
\* by a CRITICAL cycle is not turned ON by a control message delivered
\* while the last classification is still CRITICAL.
C6_LatchedRelayStaysOff ==
  [][(lastLevel = "CRITICAL" /\ ~relayPin /\ sDeliver) => ~relayPin']_vars

\* The observer calls (notification, event log) among the outputs f.
Observers(f) == SelectSeq(f, LAMBDA o : o.kind \in {"telegram", "blynk_event"})

\* The payloads of the control commands published among the outputs f.
Commands(f) ==
  LET P == SelectSeq(f, LAMBDA o : o.kind = "publish" /\ o.topic = TOPIC_CONTROL)
  IN [i \in 1..Len(P) |-> P[i].payload.text]

\* The outputs of the master's CRITICAL path.
CriticalFx ==
  <<Pub(TRUE, TOPIC_CONTROL, Raw("RELAY_OFF"), FALSE),
    Out("telegram", "CRITICAL", Raw("CRITICAL")),
    Out("blynk_event", "critical_alert", Raw("CRITICAL"))>>

\* The message at the head of the master's queue.
NextToMaster(topic, payload) ==
  /\ net.toMaster # <<>>
  /\ Head(net.toMaster) = [topic |-> topic, payload |-> payload]

\* C7 (as claimed): the observers are invoked once per alert transition: a
\* message delivered while lastAlert is and stays CRITICAL invokes none.
C7_ObserversOncePerTransition ==
  [][(/\ mDeliver
      /\ slaveData.lastAlert = "CRITICAL"
      /\ slaveData'.lastAlert = "CRITICAL")
       => Observers(fx') = <<>>]_vars

\* C7 (amended): every Alert(CRITICAL) of the sensing node that is delivered
\* sets lastAlert = CRITICAL, publishes one RELAY_OFF control command (which
\* the broker queues to a subscribed slave) and calls the notification and
\* the event log once each, whatever lastAlert was before.
C7_CriticalPathPerDeliveredAlert ==
  [][(NextToMaster(TOPIC_ALERT, AlertDoc("CRITICAL")) /\ mDeliver)
       => /\ slaveData'.lastAlert = "CRITICAL"
          /\ fx' = CriticalFx
          /\ (TOPIC_CONTROL \in sSubs /\ Len(net.toSlave) < MaxQueue)
               => net'.toSlave =
                    Append(net.toSlave, [topic |-> TOPIC_CONTROL,
                                         payload |-> Raw("RELAY_OFF")])]_vars

\* C7 witness: the slave classified CRITICAL, the master's CRITICAL path has
\* run and its RELAY_OFF is in flight to the slave.
C7_Witness ==
  /\ lastLevel = "CRITICAL"
  /\ slaveData.lastAlert = "CRITICAL"
  /\ fx = CriticalFx
  /\ net.toSlave # <<>>
  /\ net.toSlave[Len(net.toSlave)].payload = Raw("RELAY_OFF")

\* A message the master's callback treats as an alert.
IsAlert(topic, payload) ==
  payload.json /\ topic = TOPIC_ALERT /\ payload.type = "alert"

\* What the claim allows the master to do for an alert of a level: f its
\* outputs, q and q2 the slave's queue before and after.
AlertResponse(level, f, q, q2) ==
  /\ Commands(f) = IF level = "CRITICAL" THEN <<"RELAY_OFF">> ELSE <<>>
  /\ level # "CRITICAL" => q2 = q
  /\ level = "WARNING" => f = <<Out("telegram", "WARNING", Raw("WARNING"))>>
  /\ level \notin {"CRITICAL", "WARNING"} => f = <<>>

\* C8: for an alert the master publishes a control command only when the
\* level is CRITICAL, and then RELAY_OFF; WARNING makes one notification and
\* no command; any other level makes no output at all.
C8_CommandOnlyOnCritical ==
  [][/\ (/\ net.toMaster # <<>>
         /\ IsAlert(Head(net.toMaster).topic, Head(net.toMaster).payload)
         /\ mDeliver)
          => AlertResponse(Head(net.toMaster).payload.level, fx',
                           net.toSlave, net'.toSlave)
     /\ \A m \in ForeignToMaster :
          (IsAlert(m[1], m[2]) /\ mForeign(m[1], m[2]))
            => AlertResponse(m[2].level, fx', net.toSlave, net'.toSlave)]_vars

\* C8 witness: a WARNING alert has been handled: one notification, nothing
\* else.
C8_Witness ==
  /\ slaveData.lastAlert = "WARNING"
  /\ fx = <<Out("telegram", "WARNING", Raw("WARNING"))>>

\* A payload that does not parse, or whose declared type is not the one of
\* the topic it arrived on.
Malformed(topic, payload) ==
  \/ ~payload.json
  \/ topic = TOPIC_DATA /\ payload.type # "data"
  \/ topic = TOPIC_ALERT /\ payload.type # "alert"
  \/ topic = TOPIC_STATUS /\ payload.type # "status"

\* The step hands a malformed message to the master's callback.
MalformedStep ==
  \/ /\ net.toMaster # <<>>
     /\ Malformed(Head(net.toMaster).topic, Head(net.toMaster).payload)
     /\ mDeliver
  \/ \E m \in ForeignToMaster : Malformed(m[1], m[2]) /\ mForeign(m[1], m[2])

C10_ConnectedImpliesSubscribed ==
  /\ sConn => sSubs = {"industrial/slave/control"}
  /\ mConn => mSubs = {"industrial/slave/data", "industrial/slave/alert",
                       "industrial/slave/status"}
  /\ sPc = "connectToMQTT" => ~sConn
  /\ mPc = "connectToMQTT" => ~mConn

\* C10 witness: the master has just connected and subscribed again: its
\* mirror holds a status it handled in an earlier session, which a transport
\* error ended.
C10_Witness ==
  /\ mConn /\ sConn
  /\ mPc = "loop"
  /\ fx = subscribeFx({TOPIC_DATA, TOPIC_ALERT, TOPIC_STATUS})
  /\ slaveData.relayState = "ON"

\* C11: a disconnected node is eventually connected, however many attempts
\* failed before (under SpecLive, where the broker eventually accepts), and
\* while disconnected a further attempt is always possible.
C11_EventuallyConnected ==
  /\ (~sConn) ~> sConn
  /\ (~mConn) ~> mConn
  /\ [](~sConn => ENABLED sConnectOk)
  /\ [](~mConn => ENABLED mConnectOk)

\* C11 witness: both nodes lost a session they had (the slave's retained
\* status and the master's mirror show it) and each is inside the retry loop
\* of connectToMQTT after a failed attempt.
C11_Witness ==
  /\ ~sConn /\ sPc = "connectToMQTT"
  /\ ~mConn /\ mPc = "connectToMQTT"
  /\ net.retained # <<>>
  /\ slaveData.lastAlert = "CRITICAL"

\* The publish calls on the alert topic among the outputs f.
Alerts(f) ==
  SelectSeq(f, LAMBDA o : o.kind = "publish" /\ o.topic = TOPIC_ALERT)

\* C12: a sensing cycle whose reading is WARNING or CRITICAL by the policy
\* publishes exactly one alert, carrying that level (sent when the client is
\* connected, and then queued behind the cycle's data message to a
\* subscribed master whose queue has room), also when the cycle before was
\* of the same level; a cycle whose reading is NORMAL publishes no alert.
C12_AlertEveryNonNormalCycle ==
  [][IsCycle(fx')
       => LET level == ReferenceLevel(lastReading')
              alert == [topic |-> TOPIC_ALERT, payload |-> AlertDoc(level)]
          IN IF level = "NORMAL"
             THEN Alerts(fx') = <<>>
             ELSE /\ Alerts(fx') = <<Pub(sConn, TOPIC_ALERT, AlertDoc(level),
                                          FALSE)>>
                  /\ (sConn /\ TOPIC_ALERT \in mSubs
                        /\ Len(net.toMaster) < MaxQueue)
                       => /\ Len(net'.toMaster) = Len(net.toMaster) + 2
                          /\ net'.toMaster[Len(net'.toMaster)] = alert]_vars

\* C12 witness: a second CRITICAL cycle in a row has published its alert on
\* a live connection.
C12_Witness ==
  /\ repeated /\ IsCycle(fx) /\ sConn
  /\ Alerts(fx) = <<Pub(TRUE, TOPIC_ALERT, AlertDoc("CRITICAL"), FALSE)>>

\* The status publishes among the outputs f that reached the wire.
StatusSent(f) ==
  SelectSeq(f, LAMBDA o : o.kind = "publish" /\ o.topic = TOPIC_STATUS /\ o.sent)

\* C13: every publish of a status is retained and no other publish is; the
\* broker's retained message is the last status put on the wire; a master
\* that connects and subscribes while a status is retained gets exactly that
\* status queued, with no step of the slave; and a status taken from the
\* queue makes the mirrored relayState its relay value.
C13_StatusRetainedRecovered ==
  [][/\ \A i \in 1..Len(fx') :
          fx'[i].kind = "publish"
            => (fx'[i].retain <=> fx'[i].topic = TOPIC_STATUS)
     /\ net'.retained =
          IF StatusSent(fx') # <<>>
          THEN <<StatusSent(fx')[Len(StatusSent(fx'))].payload>>
          ELSE net.retained
     /\ (mConnectOk /\ net.retained # <<>>)
          => /\ net'.toMaster = <<[topic |-> TOPIC_STATUS,
                                   payload |-> Head(net.retained)]>>
             /\ UNCHANGED <<slaveVars, sConnVars>>
     /\ (/\ net.toMaster # <<>>
         /\ Head(net.toMaster).topic = TOPIC_STATUS
         /\ Head(net.toMaster).payload.type = "status"
         /\ mDeliver)
          => slaveData'.relayState = Head(net.toMaster).payload.relay]_vars

\* C13 witness: the master, which handled an alert in an earlier session,
\* has just connected and subscribed again; the retained status is queued to
\* it and differs from its mirror, and the slave is not connected.
C13_Witness ==
  /\ mConn /\ ~sConn
  /\ fx = subscribeFx({TOPIC_DATA, TOPIC_ALERT, TOPIC_STATUS})
  /\ slaveData.lastAlert = "WARNING"
  /\ net.retained = <<StatusDoc("ON")>>
  /\ net.toMaster = <<[topic |-> TOPIC_STATUS, payload |-> StatusDoc("ON")]>>
  /\ slaveData.relayState = "OFF"

\* The status publish calls among the outputs f.
StatusCalls(f) ==
  SelectSeq(f, LAMBDA o : o.kind = "publish" /\ o.topic = TOPIC_STATUS)

\* C14 (as claimed): every step that changes the relay output, by a remote
\* command or by the CRITICAL override, publishes a status carrying the new
\* relay state.
C14_TransitionEmitsStatus ==
  [][relayPin' # relayPin
       => /\ StatusCalls(fx') # <<>>
          /\ StatusCalls(fx')[Len(StatusCalls(fx'))].payload
               = StatusDoc(OnOff(relayPin'))]_vars

\* The step hands the slave's callback a control message that is neither
\* RELAY_ON nor RELAY_OFF.
UnknownCommandStep ==
  \E m \in ForeignToSlave :
    /\ m[1] = TOPIC_CONTROL
    /\ MessageText(m[2]) \notin {"RELAY_ON", "RELAY_OFF"}
    /\ sForeign(m[1], m[2])

\* C15 (as claimed): an unknown control message leaves the relay unchanged
\* and no status is published.
C15_UnknownCommandSilent ==
  [][UnknownCommandStep
       => (UNCHANGED <<relayPin, relayState>> /\ StatusCalls(fx') = <<>>)]_vars

\* C15 (amended): an unknown control message leaves the relay pin and
\* relayState unchanged; the callback still reports the message, writes
\* relayState to Blynk V4 and publishes one retained status carrying the
\* unchanged level of the pin.
C15_UnknownCommandKeepsRelay ==
  [][UnknownCommandStep
       => /\ UNCHANGED <<relayPin, relayState>>
          /\ Len(fx') = 3
          /\ fx'[1].kind = "serial"
          /\ fx'[2] = Out("blynk", "V4", Num(Bit(relayState)))
          /\ fx'[3] = Pub(sConn, TOPIC_STATUS, StatusDoc(OnOff(relayPin)),
                          TRUE)]_vars

\* C15 witness: with the relay ON by an earlier Blynk write, the unknown
\* command REBOOT has been handled and the relay is still ON.
C15_Witness ==
  /\ relayPin /\ relayState
  /\ IsControlFx(fx, "REBOOT", TRUE)

\* C16: a sensing cycle whose reading is WARNING or NORMAL by the policy
\* changes neither the relay pin nor relayState, and no sensing cycle at all
\* turns the relay ON.
C16_NonCriticalKeepsRelay ==
  [][IsCycle(fx')
       => /\ ReferenceLevel(lastReading') \in {"WARNING", "NORMAL"}
               => UNCHANGED <<relayPin, relayState>>
          /\ ~relayPin => ~relayPin'
          /\ ~relayState => ~relayState']_vars

\* C16 witness: after a CRITICAL shutdown a NORMAL cycle has run on a live
\* connection and the relay is still OFF.
C16_Witness ==
  /\ everCritical /\ IsCycle(fx) /\ lastLevel = "NORMAL"
  /\ ~relayPin /\ ~relayState /\ fx[1].sent

\* C18 (as claimed): once the last classification is CRITICAL and no message
\* is in flight to either node, the relay is OFF.
C18_QuiescentCriticalIsOff ==
  (lastLevel = "CRITICAL" /\ net.toSlave = <<>> /\ net.toMaster = <<>>)
    => ~relayPin

\* A message the master's callback accepts, of the declared type.
IsKind(topic, payload, kind, type) ==
  payload.json /\ topic = kind /\ payload.type = type

\* What the mirror must be after the master's callback took a message.
MirrorAfter(topic, payload) ==
  /\ IsKind(topic, payload, TOPIC_DATA, "data")
       => slaveData' = [temperature |-> payload.temperature,
                        humidity |-> payload.humidity,
                        gas |-> payload.gas,
                        relayState |-> slaveData.relayState,
                        lastAlert |-> slaveData.lastAlert,
                        lastUpdate |-> now]
  /\ IsKind(topic, payload, TOPIC_ALERT, "alert")
       => slaveData' = [slaveData EXCEPT !.lastAlert = payload.level]
  /\ IsKind(topic, payload, TOPIC_STATUS, "status")
       => slaveData' = [slaveData EXCEPT !.relayState = payload.relay]

\* C19: an accepted Data message overwrites temperature, humidity, gas and
\* lastUpdate and nothing else, an Alert lastAlert alone, a Status relayState
\* alone; and lastUpdate changes in no step but the handling of a Data
\* message, where it becomes the current millis().
C19_EachKindItsOwnFields ==
  [][/\ (net.toMaster # <<>> /\ mDeliver)
          => MirrorAfter(Head(net.toMaster).topic, Head(net.toMaster).payload)
     /\ \A m \in ForeignToMaster :
          ((\E k \in {"data", "alert", "status"} : m[2].type = k)
             /\ mForeign(m[1], m[2]))
            => MirrorAfter(m[1], m[2])
     /\ slaveData'.lastUpdate # slaveData.lastUpdate
          => /\ net.toMaster # <<>>
             /\ IsKind(Head(net.toMaster).topic, Head(net.toMaster).payload,
                        TOPIC_DATA, "data")
             /\ mDeliver]_vars

\* C19 witness: a status has just been handled later than the last data
\* message: the mirror holds that sample and its older lastUpdate.
C19_Witness ==
  /\ fx = <<Out("blynk", "V3", Num(1))>>
  /\ slaveData.relayState = "ON"
  /\ slaveData.temperature = 410
  /\ slaveData.lastAlert = "CRITICAL"
  /\ slaveData.lastUpdate < now

\* The statements inside the slave's handlers, each with the statement that
\* follows it in the source.
SlaveFollows ==
  [p \in {"write:digitalWrite", "write:publishStatus", "critical:publishAlert",
          "warning:publishAlert", "critical:digitalWrite",
          "critical:relayState", "critical:virtualWrite",
          "callback:relayState", "callback:publishStatus", "callback:return"}
     |-> CASE p = "write:digitalWrite" -> "write:publishStatus"
           [] p = "write:publishStatus" -> "timer.run"
           [] p = "critical:publishAlert" -> "critical:digitalWrite"
           [] p = "warning:publishAlert" -> "connected"
           [] p = "critical:digitalWrite" -> "critical:relayState"
           [] p = "critical:relayState" -> "critical:virtualWrite"
           [] p = "critical:virtualWrite" -> "connected"
           [] p = "callback:relayState" -> "callback:publishStatus"
           [] OTHER -> "Blynk.run"]

\* The same for the master's handleAlert.
MasterFollows ==
  [p \in {"alert:sendControlCommand", "alert:sendTelegramAlert",
          "alert:logEvent"}
     |-> CASE p = "alert:sendControlCommand" -> {"alert:sendTelegramAlert"}
           [] p = "alert:sendTelegramAlert" -> {"alert:logEvent", "Blynk.run"}
           [] OTHER -> {"Blynk.run"}]

\* C17: while a node is inside a handler, a step either belongs to the
\* other node and leaves this node's variables alone, or executes the
\* handler's next statement: no other handler of the node starts.  So from
\* the start of a CRITICAL cycle to its forced OFF nothing switches the
\* relay ON, and the cycle reaches its last statement with the relay OFF.
C17_HandlersSerialized ==
  /\ [](sPc = "critical:virtualWrite" => (~relayPin /\ ~relayState))
  /\ [][/\ sPc \in DOMAIN SlaveFollows
            => \/ sPc' = sPc /\ UNCHANGED <<slaveVars, sConn, sSubs>>
               \/ sPc' = SlaveFollows[sPc]
        /\ sPc \in {"critical:publishAlert", "critical:digitalWrite",
                    "critical:relayState"}
            => (relayPin' => relayPin) /\ (relayState' => relayState)
        /\ mPc \in DOMAIN MasterFollows
            => \/ mPc' = mPc /\ UNCHANGED <<slaveData, mConn, mSubs>>
               \/ mPc' \in MasterFollows[mPc]]_vars

\* C17 witness: a RELAY_ON waits at the head of the slave's queue while the
\* slave is inside a CRITICAL cycle, about to force the relay, still ON, OFF.
C17_Witness ==
  /\ sPc = "critical:digitalWrite"
  /\ NextControl("RELAY_ON")
  /\ relayPin /\ relayState

\* The observer calls of the master among the outputs f.
MasterObservers(f) ==
  SelectSeq(f, LAMBDA o : o.kind = "telegram"
                          \/ (o.kind = "blynk_event" /\ o.topic = "critical_alert"))

\* C20: in the master's CRITICAL path the first observer call is reached only
\* from the statement that publishes RELAY_OFF, with lastAlert already
\* CRITICAL; observers are called from nowhere else; and whether the
\* notification succeeds or fails, the step leaves the mirror and the broker
\* as they are and is followed by the event log.
C20_CommandBeforeObserversIsolated ==
  [][/\ (mPc' = "alert:sendTelegramAlert" /\ mPc # mPc'
         /\ slaveData'.lastAlert = "CRITICAL")
          => /\ mPc = "alert:sendControlCommand"
             /\ slaveData.lastAlert = "CRITICAL"
             /\ fx' = <<Pub(mConn, TOPIC_CONTROL, Raw("RELAY_OFF"), FALSE)>>
             /\ (mConn /\ TOPIC_CONTROL \in sSubs
                   /\ Len(net.toSlave) < MaxQueue)
                  => net'.toSlave =
                       Append(net.toSlave, [topic |-> TOPIC_CONTROL,
                                            payload |-> Raw("RELAY_OFF")])
     /\ MasterObservers(fx') # <<>>
          => mPc \in {"alert:sendTelegramAlert", "alert:logEvent"}
     /\ (mPc = "alert:sendTelegramAlert" /\ mPc' # mPc
         /\ slaveData.lastAlert = "CRITICAL")
          => /\ mPc' = "alert:logEvent"
             /\ fx'[1].payload.text \in {"sent", "failed"}
             /\ slaveData' = slaveData /\ net' = net
     /\ (mPc = "alert:logEvent" /\ mPc' # mPc)
          => /\ fx' = <<Out("blynk_event", "critical_alert", Raw("CRITICAL"))>>
             /\ slaveData' = slaveData /\ net' = net]_vars

\* C20 witness: the notification of a CRITICAL alert has failed; lastAlert is
\* CRITICAL, the RELAY_OFF is in flight to the slave and the event log is the
\* next statement.
C20_Witness ==
  /\ mPc = "alert:logEvent"
  /\ fx = <<Out("telegram", "CRITICAL", Raw("failed"))>>
  /\ slaveData.lastAlert = "CRITICAL"
  /\ net.toSlave # <<>>
  /\ net.toSlave[Len(net.toSlave)].payload = Raw("RELAY_OFF")

\* C21 (as claimed): on the slave the variable relayState equals the level
\* of the relay pin in every reachable state, from boot onward and after
\* every control message, Blynk control write and emergency shutdown.
C21_RelayStateMatchesPin == relayState = relayPin

\* C22 (as claimed): whenever both nodes are connected and no message is in
\* flight, the master's mirrored relayState equals the level of the slave's
\* relay pin, from boot and after a local CRITICAL shutdown as well as after
\* remote commands.
C22_QuiescentMirrorMatchesRelay ==
  (sConn /\ mConn /\ net.toMaster = <<>> /\ net.toSlave = <<>>)
    => slaveData.relayState = OnOff(relayPin)

\* C23 (as claimed): the master's lastAlert follows the slave's hazard level:
\* once the slave's classification is back to NORMAL and nothing is in flight
\* to the master, lastAlert becomes NORMAL again, unless the classification
\* leaves NORMAL first.
C23_MirrorAlertReturnsToNormal ==
  (lastLevel = "NORMAL" /\ net.toMaster = <<>>)
    ~> (slaveData.lastAlert = "NORMAL" \/ lastLevel # "NORMAL")

\* What the claim allows a web toggle to do when the mirror shows the relay
\* state mirror: f its outputs, n and n2 the broker state before and after.
ToggleResponse(mirror, f, n, n2) ==
  LET command == IF mirror = "ON" THEN "RELAY_OFF" ELSE "RELAY_ON" IN
  /\ Commands(f) = <<command>>
  /\ Len(SelectSeq(f, LAMBDA o : o.kind = "publish")) = 1
  /\ n2.toSlave \in {n.toSlave,
                     Append(n.toSlave, [topic |-> TOPIC_CONTROL,
                                        payload |-> Raw(command)])}
  /\ n2.toMaster = n.toMaster
  /\ n2.retained = n.retained

\* C24: a web toggle request makes exactly one publish, a control command
\* chosen from the mirrored relay state (RELAY_OFF if it is ON, RELAY_ON
\* otherwise), and leaves the mirror and the slave's relay as they are; the
\* mirrored relay state changes in no step but the master's callback taking a
\* status message on the status topic.
C24_ToggleOneCommandFromMirror ==
  [][/\ handleToggle
          => /\ ToggleResponse(slaveData.relayState, fx', net, net')
             /\ UNCHANGED <<slaveData, slaveVars>>
     /\ slaveData'.relayState # slaveData.relayState
          => \/ /\ net.toMaster # <<>>
                /\ IsKind(Head(net.toMaster).topic, Head(net.toMaster).payload,
                          TOPIC_STATUS, "status")
                /\ mDeliver
             \/ \E m \in ForeignToMaster :
                  /\ IsKind(m[1], m[2], TOPIC_STATUS, "status")
                  /\ mForeign(m[1], m[2])]_vars

\* C24 witness: a toggle has just been answered while the mirror shows ON
\* and the relay is OFF: the command sent is RELAY_OFF, taken from the mirror.
C24_Witness ==
  /\ fx = <<Pub(TRUE, TOPIC_CONTROL, Raw("RELAY_OFF"), FALSE),
            Out("http", "303", Raw("/"))>>
  /\ slaveData.relayState = "ON"
  /\ ~relayPin

====
